---------------------------- MODULE Spec2Model ----------------------------
(***************************************************************************)
(* jira-summarizer: CSV rows from stdin are parsed (csv-parse, cast: true),*)
(* collected into an array, grouped by epic link, sorted inside each group *)
(* and printed as markdown.  The model follows src/unnamed/part_000 (the   *)
(* latest revision of bin/jira-summarizer.js).                             *)
(*                                                                         *)
(* JavaScript strings are TLA+ strings; a cell value after the parser's    *)
(* cast is [type |-> "string" | "number", text |-> String(value)].         *)
(***************************************************************************)
EXTENDS Integers, Sequences, FiniteSets

VARIABLES
  header,     \* name of the epic-link column in the CSV header row
  config,     \* CONFIG = { ...DEFAULTS, ...userConfig }
  parser,     \* csv-parse stream: "reading" | "ended" | "error"
  emitted,    \* every record the parser has emitted so far, in input order
  inflight,   \* records written by the parser, not yet transformed by xform
  records,    \* collect(): const records = []
  calls,      \* arguments of each invocation of collect()'s callback
  groups,     \* render(): const groups = groupBy(...)
  names,      \* render(): const names = Object.keys(groups).sort()
  blocks,     \* render(): the group blocks names.map has produced so far
  stdout,     \* what console.log has written
  proc,       \* the process: "running" | "rendering" | "done" | "crashed"
  descArg,     \* getShortDescription: argument
  descOut,    \* getShortDescription: result
  dpc,        \* getShortDescription: "idle" | "input" | "done"
  ra, rb, rc, \* recordComparator: three records
  cmp,        \* recordComparator: the results for the pairs of ra, rb, rc
  sorts,      \* <<ra, rb, rc>> sorted once and sorted twice
  cpc         \* recordComparator: "idle" | "input" | "done"

pipevars == <<header, config, parser, emitted, inflight, records, calls,
              groups, names, blocks, stdout, proc>>
descvars == <<descArg, descOut, dpc>>
cmpvars  == <<ra, rb, rc, cmp, sorts, cpc>>
vars     == <<pipevars, descvars, cmpvars>>

---------------------------------------------------------------------------
(* Bounds *)

MaxRows == 3          \* data rows in the CSV input
MaxDescTokens == 3    \* tokens concatenated into a description

---------------------------------------------------------------------------
(* Strings *)

Upper == "ABCDEFGHIJKLMNOPQRSTUVWXYZ"
Lower == "abcdefghijklmnopqrstuvwxyz"
Digits == "0123456789"

At(s, i) == SubSeq(s, i, i)

Chars(s) == {At(s, i) : i \in 1..Len(s)}

IndexIn(c, s) == CHOOSE i \in 1..Len(s) : At(s, i) = c

Letters == Chars(Upper) \cup Chars(Lower)

\* UTF-16 code units of the characters the inputs use.
CharCodes ==
  [c \in {"\t", "\n", "\r", " ", "'", "-", ".", ":", "_"}
         \cup Chars(Digits) \cup Letters |->
     CASE c = "\t" -> 9
       [] c = "\n" -> 10
       [] c = "\r" -> 13
       [] c = " " -> 32
       [] c = "'" -> 39
       [] c = "-" -> 45
       [] c = "." -> 46
       [] c \in Chars(Digits) -> 47 + IndexIn(c, Digits)
       [] c = ":" -> 58
       [] c \in Chars(Upper) -> 64 + IndexIn(c, Upper)
       [] c = "_" -> 95
       [] OTHER -> 96 + IndexIn(c, Lower)]

IsLetter(c) == c \in Letters

IsDigit(c) == c \in Chars(Digits)

LowerCases == [c \in Chars(Upper) |-> At(Lower, IndexIn(c, Upper))]

LowerChar(c) == IF c \in DOMAIN LowerCases THEN LowerCases[c] ELSE c

RECURSIVE toLowerCase(_)
toLowerCase(s) ==
  IF s = "" THEN "" ELSE LowerChar(At(s, 1)) \o toLowerCase(Tail(s))

\* s.startsWith(p), ignoring case when ci (the regex flag i).
StartsWith(s, p, ci) ==
  /\ Len(s) >= Len(p)
  /\ IF ci THEN toLowerCase(SubSeq(s, 1, Len(p))) = toLowerCase(p)
           ELSE SubSeq(s, 1, Len(p)) = p

Drop(s, n) == SubSeq(s, n + 1, Len(s))

\* s.replace(/\r\n/g, '\n')
RECURSIVE ReplaceCRLF(_)
ReplaceCRLF(s) ==
  IF s = "" THEN ""
  ELSE IF StartsWith(s, "\r\n", FALSE) THEN "\n" \o ReplaceCRLF(Drop(s, 2))
  ELSE At(s, 1) \o ReplaceCRLF(Tail(s))

\* s.split('\n')[0]
RECURSIVE FirstLine(_)
FirstLine(s) ==
  IF s = "" \/ At(s, 1) = "\n" THEN "" ELSE At(s, 1) \o FirstLine(Tail(s))

\* s.replace(/_/, ''): the first underscore, wherever it is.
RECURSIVE StripFirstUnderscore(_)
StripFirstUnderscore(s) ==
  IF s = "" THEN ""
  ELSE IF At(s, 1) = "_" THEN Tail(s)
  ELSE At(s, 1) \o StripFirstUnderscore(Tail(s))

\* s.replace(/^_/, '')
StripLeadingUnderscore(s) == IF StartsWith(s, "_", FALSE) THEN Tail(s) ELSE s

\* s.replace(/_$/, '')
StripTrailingUnderscore(s) ==
  IF Len(s) > 0 /\ At(s, Len(s)) = "_" THEN SubSeq(s, 1, Len(s) - 1) ELSE s

\* s.replace(/^Summary: /i, '')
StripSummaryPrefix(s) ==
  IF StartsWith(s, "Summary: ", TRUE) THEN Drop(s, Len("Summary: ")) ELSE s

\* Length of the longest prefix of s made of letters: what [A-Za-z]+ takes.
RECURSIVE LetterRun(_)
LetterRun(s) ==
  IF s # "" /\ IsLetter(At(s, 1)) THEN 1 + LetterRun(Tail(s)) ELSE 0

\* s.replace(/^[A-Za-z]+'s summary: /i, '')
\* The character after the letters is an apostrophe, not a letter, so the
\* match, if any, takes the whole run of leading letters.
StripOwnerPrefix(s) ==
  LET k == LetterRun(s) IN
  IF k >= 1 /\ StartsWith(Drop(s, k), "'s summary: ", TRUE)
  THEN Drop(s, k + Len("'s summary: "))
  ELSE s

\* The prefix taken off before the underscores.
getShortDescriptionPrefixFirst(d) ==
  StripOwnerPrefix(
    StripTrailingUnderscore(
      StripLeadingUnderscore(
        StripSummaryPrefix(
          FirstLine(
            ReplaceCRLF(d))))))

getShortDescription(d) ==
  StripOwnerPrefix(
    StripSummaryPrefix(
      StripTrailingUnderscore(
        StripLeadingUnderscore(
          FirstLine(
            ReplaceCRLF(d))))))

---------------------------------------------------------------------------
(* JavaScript values *)

Str(s) == [type |-> "string", text |-> s]
Num(s) == [type |-> "number", text |-> s]
Undefined == [type |-> "undefined", text |-> "undefined"]

\* The result of a property lookup or of arithmetic on it: a number, a
\* value that is not a number (an inherited function), undefined, or NaN.
JsNum(n) == [k |-> "num", n |-> n]
JsObj == [k |-> "obj", n |-> 0]
JsUndef == [k |-> "undef", n |-> 0]
JsNaN == [k |-> "nan", n |-> 0]
\* A TypeError raised by the comparator (x.localeCompare is not a function).
JsThrow == [k |-> "throw", n |-> 0]

\* x || 0
OrZero(x) == IF x.k = "undef" \/ x = JsNum(0) THEN JsNum(0) ELSE x

\* x - y
Minus(x, y) ==
  IF x.k = "num" /\ y.k = "num" THEN JsNum(x.n - y.n) ELSE JsNaN

\* Names every object literal inherits from Object.prototype.
ObjectPrototypeNames ==
  {"constructor", "toString", "valueOf", "hasOwnProperty", "isPrototypeOf",
   "propertyIsEnumerable", "toLocaleString", "__proto__"}

\* obj[key] of an object literal whose own properties are the pairs of table.
Lookup(table, key) ==
  IF key \in DOMAIN table THEN JsNum(table[key])
  ELSE IF key \in ObjectPrototypeNames THEN JsObj
  ELSE JsUndef

STATUS_INDICES ==
  [s \in {"Staging Ready", "Closed", "Code Review", "In Progress",
          "Rejected", "Open"} |->
     CASE s \in {"Staging Ready", "Closed"} -> 2
       [] s \in {"Code Review", "In Progress", "Rejected"} -> 1
       [] OTHER -> 0]

STATUS_COLORS == <<"lightgrey", "yellow", "brightgreen">>

PRIORITIES ==
  [p \in {"Highest", "High", "Medium", "Low", "Lowest"} |->
     CASE p = "Highest" -> 2
       [] p = "High" -> 1
       [] p = "Medium" -> 0
       [] p = "Low" -> -1
       [] OTHER -> -2]

DEFAULTS == [domain |-> "DOMAIN.atlassian.net", epics |-> <<>>]

---------------------------------------------------------------------------
(* String order *)

\* Lexicographic comparison of two strings by the weight w[c] of each
\* character: -1, 0 or 1.
RECURSIVE CompareBy(_, _, _)
CompareBy(w, s, t) ==
  IF s = "" /\ t = "" THEN 0
  ELSE IF s = "" THEN -1
  ELSE IF t = "" THEN 1
  ELSE IF w[At(s, 1)] < w[At(t, 1)] THEN -1
  ELSE IF w[At(s, 1)] > w[At(t, 1)] THEN 1
  ELSE CompareBy(w, Tail(s), Tail(t))

\* The order Array.prototype.sort() uses without a comparator: code units.
CodeUnitCompare(s, t) == CompareBy(CharCodes, s, t)

\* Primary weights of the root collation: white space, then punctuation,
\* then digits, then letters without regard to case.
PrimaryWeights ==
  [c \in DOMAIN CharCodes |->
     CASE c = "\t" -> 1
       [] c = "\n" -> 2
       [] c = "\r" -> 3
       [] c = " " -> 4
       [] c = "_" -> 5
       [] c = "-" -> 6
       [] c = ":" -> 7
       [] c = "." -> 8
       [] c = "'" -> 9
       [] c \in Chars(Digits) -> 9 + IndexIn(c, Digits)
       [] OTHER -> 19 + IndexIn(LowerChar(c), Lower)]

\* Tertiary weights: a lower-case letter before its upper-case form.
TertiaryWeights ==
  [c \in DOMAIN CharCodes |-> IF c \in DOMAIN LowerCases THEN 1 ELSE 0]

\* a.localeCompare(b), String(b) = b.text; a TypeError unless a is a string.
localeCompare(a, b) ==
  IF a.type # "string" THEN JsThrow
  ELSE LET p == CompareBy(PrimaryWeights, a.text, b.text) IN
       IF p # 0 THEN JsNum(p)
       ELSE JsNum(CompareBy(TertiaryWeights, a.text, b.text))

---------------------------------------------------------------------------
(* Records *)

EpicLinkTab == "Custom field\t(Epic Link)"
EpicLinkSpace == "Custom field (Epic Link)"

\* record[name]: undefined when the record has no such column.
Get(record, name) ==
  IF name \in DOMAIN record THEN record[name] ELSE Undefined

recordComparator(a, b) ==
  LET priority ==
        Minus(OrZero(Lookup(PRIORITIES, Get(b, "Priority").text)),
              OrZero(Lookup(PRIORITIES, Get(a, "Priority").text)))
      statusIdx ==
        Minus(OrZero(Lookup(STATUS_INDICES, Get(b, "Status").text)),
              OrZero(Lookup(STATUS_INDICES, Get(a, "Status").text)))
      statusName == localeCompare(Get(a, "Status"), Get(b, "Status"))
  IN
  IF priority # JsNum(0) THEN priority
  ELSE IF statusIdx # JsNum(0) THEN statusIdx
  ELSE IF statusName # JsNum(0) THEN statusName
  ELSE localeCompare(Get(a, "Summary"), Get(b, "Summary"))

\* recordComparator on two record objects.
CompareRecords(a, b) == recordComparator(a.cells, b.cells)

\* The comparison of sort() without a comparator: strings by code units.
DefaultCompare(s, t) == JsNum(CodeUnitCompare(s, t))

\* Array.prototype.sort(comparefn) on a short array: a stable insertion sort.
\* Insert x into the sorted prefix, moving left past every element e with
\* comparefn(e, x) > 0 (NaN counts as 0); an exception of comparefn ends it.
\* comparefn is "records" (recordComparator) or "default" (no comparator).
RECURSIVE InsertSorted(_, _, _)
InsertSorted(comparefn, prefix, x) ==
  IF prefix = <<>> THEN [threw |-> FALSE, val |-> <<x>>]
  ELSE LET e == prefix[Len(prefix)]
           order == IF comparefn = "records" THEN CompareRecords(e, x)
                    ELSE DefaultCompare(e, x)
       IN
       IF order.k = "throw" THEN [threw |-> TRUE, val |-> <<>>]
       ELSE IF order.k = "num" /\ order.n > 0
       THEN LET rest == InsertSorted(comparefn,
                                     SubSeq(prefix, 1, Len(prefix) - 1), x)
            IN IF rest.threw THEN rest
               ELSE [threw |-> FALSE, val |-> Append(rest.val, e)]
       ELSE [threw |-> FALSE, val |-> Append(prefix, x)]

RECURSIVE ArraySort(_, _)
ArraySort(comparefn, arr) ==
  IF arr = <<>> THEN [threw |-> FALSE, val |-> <<>>]
  ELSE LET init == ArraySort(comparefn, SubSeq(arr, 1, Len(arr) - 1)) IN
       IF init.threw THEN init
       ELSE InsertSorted(comparefn, init.val, arr[Len(arr)])

---------------------------------------------------------------------------
(* Ingestion: csv-parse with columns: true, cast: true *)

RECURSIVE AllDigits(_)
AllDigits(s) == s = "" \/ (IsDigit(At(s, 1)) /\ AllDigits(Tail(s)))

\* String(parseInt(s)) of a string of digits: no leading zeros.
RECURSIVE Canonical(_)
Canonical(s) ==
  IF Len(s) > 1 /\ At(s, 1) = "0" THEN Canonical(Tail(s)) ELSE s

\* cast: true turns a cell that reads as a number into a number.
Cast(raw) ==
  IF raw # "" /\ AllDigits(raw) THEN Num(Canonical(raw)) ELSE Str(raw)

\* columns: true makes each data row an object keyed by the header's cells;
\* id stands for the identity of the object.
Parse(hdr, row, n) ==
  [id |-> n,
   cells |->
     [c \in {"Issue key", "Summary", "Description", hdr, "Priority",
             "Status"} |->
        CASE c = "Issue key" -> Cast(row.key)
          [] c = "Summary" -> Cast(row.summary)
          [] c = "Description" -> Cast(row.description)
          [] c = "Priority" -> Cast(row.priority)
          [] c = "Status" -> Cast(row.status)
          [] OTHER -> Cast(row.epic)]]

---------------------------------------------------------------------------
(* Rendering *)

IsSpace(c) == c \in {" ", "\t", "\n", "\r"}

RECURSIVE TrimStart(_)
TrimStart(s) == IF s # "" /\ IsSpace(At(s, 1)) THEN TrimStart(Tail(s)) ELSE s

RECURSIVE TrimEnd(_)
TrimEnd(s) ==
  IF s # "" /\ IsSpace(At(s, Len(s)))
  THEN TrimEnd(SubSeq(s, 1, Len(s) - 1)) ELSE s

\* s.trim()
Trim(s) == TrimEnd(TrimStart(s))

\* s.replace(/ /g, '_')
RECURSIVE SpacesToUnderscores(_)
SpacesToUnderscores(s) ==
  IF s = "" THEN ""
  ELSE (IF At(s, 1) = " " THEN "_" ELSE At(s, 1))
       \o SpacesToUnderscores(Tail(s))

\* arr.join(sep)
RECURSIVE Join(_, _)
Join(arr, sep) ==
  IF arr = <<>> THEN ""
  ELSE IF Len(arr) = 1 THEN arr[1]
  ELSE arr[1] \o sep \o Join(Tail(arr), sep)

\* The color STATUS_COLORS[index] of toIcon; "undefined" when index is not
\* one of its keys.
StatusColor(status) ==
  LET index == OrZero(Lookup(STATUS_INDICES, status.text)) IN
  IF index.k = "num" THEN STATUS_COLORS[index.n + 1] ELSE "undefined"

\* toIcon(status); status.toLowerCase() needs a string.
toIcon(status) ==
  IF status.type # "string" THEN [threw |-> TRUE, val |-> ""]
  ELSE LET label == SpacesToUnderscores(toLowerCase(status.text))
           url == "https://img.shields.io/badge/-" \o label \o "-"
                  \o StatusColor(status) \o ".svg"
       IN [threw |-> FALSE,
           val |-> "![" \o status.text \o "](" \o url \o ")"]

PrioritySuffix(priority) ==
  LET rank == Lookup(PRIORITIES, priority.text) IN
  IF rank.k = "num" /\ rank.n > 0 THEN " :bangbang:"
  ELSE IF rank.k = "num" /\ rank.n < 0 THEN " :arrow_down:"
  ELSE ""

\* The callback of records.map in renderGroup: one row fragment.
\* .trim(), .toLowerCase() and .replace() raise a TypeError on a value that
\* is not a string.
RenderItem(rec, CONFIG) ==
  LET record == rec.cells
      key == Get(record, "Issue key")
      priority == Get(record, "Priority")
      summary == Get(record, "Summary")
      status == Get(record, "Status")
      description == Get(record, "Description")
      icon == toIcon(status)
  IN
  IF summary.type # "string" \/ icon.threw \/ description.type # "string"
  THEN [threw |-> TRUE, val |-> <<>>]
  ELSE LET title == Trim(summary.text)
           shortdesc == getShortDescription(ReplaceCRLF(description.text))
           url == "https://" \o CONFIG.domain \o "/browse/" \o key.text
       IN [threw |-> FALSE,
           val |-> [record |-> rec,
                    shortdesc |-> shortdesc,
                    color |-> StatusColor(status),
                    fragment |->
                      Join(<<"- [" \o icon.val \o "](" \o url \o ") &nbsp; "
                               \o title \o PrioritySuffix(priority),
                             "",
                             "  > " \o shortdesc>>, "\n")]]

\* records.map(callback): the fragments, or the first exception.
RECURSIVE MapItems(_, _)
MapItems(arr, CONFIG) ==
  IF arr = <<>> THEN [threw |-> FALSE, val |-> <<>>]
  ELSE LET first == RenderItem(arr[1], CONFIG) IN
       IF first.threw THEN [threw |-> TRUE, val |-> <<>>]
       ELSE LET rest == MapItems(Tail(arr), CONFIG) IN
            IF rest.threw THEN rest
            ELSE [threw |-> FALSE, val |-> <<first.val>> \o rest.val]

\* renderGroup: records.sort(recordComparator) sorts the array in place, then
\* records.map renders it.  sorted is the array after the sort.
renderGroup(arr, CONFIG) ==
  LET sortedRecords == ArraySort("records", arr) IN
  IF sortedRecords.threw THEN [threw |-> TRUE, sorted |-> arr, items |-> <<>>]
  ELSE LET items == MapItems(sortedRecords.val, CONFIG) IN
       [threw |-> items.threw, sorted |-> sortedRecords.val,
        items |-> items.val]

\* The key under which groupBy files a record: the epic-link column as a
\* property name, String(undefined) when the record has no such column.
GroupKey(rec) == Get(rec.cells, EpicLinkSpace).text

\* groupBy with unshift in place of push.
RECURSIVE groupByUnshift(_)
groupByUnshift(arr) ==
  IF arr = <<>> THEN [keys |-> <<>>, map |-> <<>>]
  ELSE LET ret == groupByUnshift(SubSeq(arr, 1, Len(arr) - 1))
           item == arr[Len(arr)]
           key == GroupKey(item)
       IN
       IF key \in DOMAIN ret.map
       THEN [keys |-> ret.keys,
             map |-> [ret.map EXCEPT ![key] = <<item>> \o @]]
       ELSE [keys |-> Append(ret.keys, key),
             map |-> [k \in DOMAIN ret.map \cup {key} |->
                        IF k = key THEN <<item>> ELSE ret.map[k]]]

\* groupBy(records, GroupKey): each record is pushed onto the array of its key;
\* keys lists the keys in the order they were created.
RECURSIVE groupBy(_)
groupBy(arr) ==
  IF arr = <<>> THEN [keys |-> <<>>, map |-> <<>>]
  ELSE LET ret == groupBy(SubSeq(arr, 1, Len(arr) - 1))
           item == arr[Len(arr)]
           key == GroupKey(item)
       IN
       IF key \in DOMAIN ret.map
       THEN [keys |-> ret.keys,
             map |-> [ret.map EXCEPT ![key] = Append(@, item)]]
       ELSE [keys |-> Append(ret.keys, key),
             map |-> [k \in DOMAIN ret.map \cup {key} |->
                        IF k = key THEN <<item>> ELSE ret.map[k]]]

\* Object.keys(groups).sort()
SortedKeys(g) == ArraySort("default", g.keys).val

\* EPICS[group] || group || 'No epic'
EpicName(EPICS, group) ==
  LET configured == IF group \in DOMAIN EPICS THEN EPICS[group] ELSE "" IN
  IF configured # "" THEN configured
  ELSE IF group # "" THEN group
  ELSE "No epic"

\* getTimestamp(): the date of the run.
Today == "2018-09-02"

---------------------------------------------------------------------------
(* Inputs *)

\* Data rows of the CSV input, as the text of their cells.
Row(key, summary, description, epic, priority, status) ==
  [key |-> key, summary |-> summary, description |-> description,
   epic |-> epic, priority |-> priority, status |-> status]

Rows ==
  { Row("PR-1", "Banana task", "Summary: crashes on save\r\nmore detail",
        "PR-200", "Medium", "Open"),
    Row("PR-2", "Apple task", "_Bob's summary: fix it_",
        "PR-200", "Medium", "Open"),
    Row("PR-3", "Fix bug", "", "PR-100", "High", "In Progress"),
    Row("PR-4", " Deploy ", "plain", "7", "Lowest", "Closed"),
    Row("PR-5", "Triage", "a\r\r\nb", "", "Urgent", "Blocked"),
    Row("PR-6", "404", "not found", "PR-100", "High", "Rejected"),
    Row("PR-7", "Cleanup", "tidy", "PR-200", "constructor", "Open") }

\* The object a configuration file exports; no file gives {}.
UserConfigs ==
  { <<>>,
    [domain |-> "x.atlassian.net",
     epics |-> [k \in {"PR-100", "PR-200"} |->
                  IF k = "PR-100" THEN "Checkout Flow" ELSE "Billing"]],
    [epics |-> [k \in {"PR-200", ""} |->
                  IF k = "PR-200" THEN "" ELSE "Backlog"]] }

\* { ...DEFAULTS, ...userConfig }
Merge(defaults, user) ==
  [k \in DOMAIN defaults \cup DOMAIN user |->
     IF k \in DOMAIN user THEN user[k] ELSE defaults[k]]

\* Descriptions: up to MaxDescTokens of these, concatenated.
DescTokens ==
  {"_", "Summary: ", "sUMMARY: ", "Bob's summary: ", "'s summary: ",
   "\r\n", "\n", "\r", "x", "0"}

RECURSIVE Concats(_)
Concats(n) ==
  IF n = 0 THEN {""}
  ELSE LET shorter == Concats(n - 1) IN
       shorter \cup {p \o t : p \in shorter, t \in DescTokens}

Descriptions == Concats(MaxDescTokens)

\* Records handed to the comparator: the cells it reads, after the cast.
CmpPriorities == {"High", "Low", "Urgent", "constructor"}
CmpStatuses == {"Open", "In Progress", "Rejected", "Blocked"}
CmpSummaries == {"apple", "Banana", "404"}

CmpCells ==
  { [c \in {"Priority", "Status", "Summary"} |->
       CASE c = "Priority" -> Cast(p)
         [] c = "Status" -> Cast(st)
         [] OTHER -> Cast(su)] :
    p \in CmpPriorities, st \in CmpStatuses, su \in CmpSummaries }

---------------------------------------------------------------------------
(* The pipeline: process.stdin.pipe(parser).pipe(collect(render)) *)

PipeInit ==
  /\ header \in {EpicLinkTab, EpicLinkSpace}
  /\ config \in {Merge(DEFAULTS, u) : u \in UserConfigs}
  /\ parser = "reading"
  /\ emitted = <<>>
  /\ inflight = <<>>
  /\ records = <<>>
  /\ calls = <<>>
  /\ groups = <<>>
  /\ names = <<>>
  /\ blocks = <<>>
  /\ stdout = <<>>
  /\ proc = "running"

PipeIdle ==
  /\ header = EpicLinkSpace
  /\ config = DEFAULTS
  /\ parser = "idle"
  /\ emitted = <<>>
  /\ inflight = <<>>
  /\ records = <<>>
  /\ calls = <<>>
  /\ groups = <<>>
  /\ names = <<>>
  /\ blocks = <<>>
  /\ stdout = <<>>
  /\ proc = "idle"

DescIdle == descArg = "" /\ descOut = "" /\ dpc = "idle"

CmpIdle ==
  /\ ra = <<>> /\ rb = <<>> /\ rc = <<>>
  /\ cmp = <<>> /\ sorts = <<>> /\ cpc = "idle"

\* The parser emits the next data row as a record.
ParserData ==
  /\ proc = "running"
  /\ parser = "reading"
  /\ Len(emitted) < MaxRows
  /\ \E row \in Rows :
       LET rec == Parse(header, row, Len(emitted) + 1) IN
       /\ emitted' = Append(emitted, rec)
       /\ inflight' = Append(inflight, rec)
  /\ UNCHANGED <<header, config, parser, records, calls, groups, names,
                 blocks, stdout, proc, descvars, cmpvars>>

\* stdin ends and the parser has emitted its last record.
ParserEnd ==
  /\ proc = "running"
  /\ parser = "reading"
  /\ parser' = "ended"
  /\ UNCHANGED <<header, config, emitted, inflight, records, calls, groups,
                 names, blocks, stdout, proc, descvars, cmpvars>>

\* A malformed row: the parser emits 'error'.  pipe() forwards no errors and
\* nothing listens for it, so the event is an uncaught exception.
ParserError ==
  /\ proc = "running"
  /\ parser = "reading"
  /\ parser' = "error"
  /\ proc' = "crashed"
  /\ UNCHANGED <<header, config, emitted, inflight, records, calls, groups,
                 names, blocks, stdout, descvars, cmpvars>>

\* transform with records.unshift(data).
TransformUnshift ==
  /\ proc = "running"
  /\ inflight # <<>>
  /\ records' = <<Head(inflight)>> \o records
  /\ inflight' = Tail(inflight)
  /\ UNCHANGED <<header, config, parser, emitted, calls, groups, names,
                 blocks, stdout, proc, descvars, cmpvars>>

\* collect(): transform: (data, _, done) => { records.push(data); done(null) }
Transform ==
  /\ proc = "running"
  /\ inflight # <<>>
  /\ records' = Append(records, Head(inflight))
  /\ inflight' = Tail(inflight)
  /\ UNCHANGED <<header, config, parser, emitted, calls, groups, names,
                 blocks, stdout, proc, descvars, cmpvars>>

\* collect(): xform.on('finish', () => callback(records)), and the first
\* statements of render: groupBy and the sorted names.
Finish ==
  /\ proc = "running"
  /\ parser = "ended"
  /\ inflight = <<>>
  /\ calls' = Append(calls, records)
  /\ LET g == groupBy(records) IN
       /\ groups' = g.map
       /\ names' = SortedKeys(g)
  /\ proc' = "rendering"
  /\ UNCHANGED <<header, config, parser, emitted, inflight, records, blocks,
                 stdout, descvars, cmpvars>>

\* render(): one call of the callback of names.map.  An exception of
\* renderGroup leaves render before anything is logged, uncaught.
RenderGroup ==
  /\ proc = "rendering"
  /\ Len(blocks) < Len(names)
  /\ LET group == names[Len(blocks) + 1]
         epicName == EpicName(config.epics, group)
         rendered == renderGroup(groups[group], config)
         heading == "## " \o epicName
     IN
     IF rendered.threw
     THEN /\ proc' = "crashed"
          /\ UNCHANGED <<groups, blocks>>
     ELSE /\ groups' = [groups EXCEPT ![group] = rendered.sorted]
          /\ blocks' =
               Append(blocks,
                      [group |-> group,
                       heading |-> heading,
                       rows |-> rendered.items,
                       text |->
                         Join(<<heading,
                                Join([i \in 1..Len(rendered.items) |->
                                        rendered.items[i].fragment],
                                     "\n\n")>>, "\n\n")])
          /\ UNCHANGED proc
  /\ UNCHANGED <<header, config, parser, emitted, inflight, records, calls,
                 names, stdout, descvars, cmpvars>>

\* render(): the two console.log calls.
LogReport ==
  /\ proc = "rendering"
  /\ Len(blocks) = Len(names)
  /\ stdout' =
       <<"*Last updated on " \o Today \o "*\n\n",
         Join([i \in 1..Len(blocks) |-> blocks[i].text], "\n\n")>>
  /\ proc' = "done"
  /\ UNCHANGED <<header, config, parser, emitted, inflight, records, calls,
                 groups, names, blocks, descvars, cmpvars>>

Init == PipeInit /\ DescIdle /\ CmpIdle

Next ==
  \/ ParserData
  \/ ParserEnd
  \/ ParserError
  \/ Transform
  \/ Finish
  \/ RenderGroup
  \/ LogReport

Spec == Init /\ [][Next]_vars

---------------------------------------------------------------------------
(* getShortDescription applied to every description *)

InitDesc ==
  /\ PipeIdle /\ CmpIdle
  /\ descArg \in Descriptions
  /\ descOut = ""
  /\ dpc = "input"

ShortDescription ==
  /\ dpc = "input"
  /\ descOut' = getShortDescription(descArg)
  /\ dpc' = "done"
  /\ UNCHANGED <<descArg, pipevars, cmpvars>>

NextDesc == ShortDescription

SpecDesc == InitDesc /\ [][NextDesc]_vars

---------------------------------------------------------------------------
(* recordComparator applied to every three records *)

InitCmp ==
  /\ PipeIdle /\ DescIdle
  /\ ra \in [id : {1}, cells : CmpCells]
  /\ rb \in [id : {2}, cells : CmpCells]
  /\ rc \in [id : {3}, cells : CmpCells]
  /\ cmp = <<>>
  /\ sorts = <<>>
  /\ cpc = "input"

Compare ==
  /\ cpc = "input"
  /\ cmp' = [ab |-> CompareRecords(ra, rb), ba |-> CompareRecords(rb, ra),
             bc |-> CompareRecords(rb, rc), cb |-> CompareRecords(rc, rb),
             ac |-> CompareRecords(ra, rc), ca |-> CompareRecords(rc, ra)]
  /\ cpc' = "compared"
  /\ UNCHANGED <<ra, rb, rc, sorts, pipevars, descvars>>

SortTwice ==
  /\ cpc = "compared"
  /\ LET once == ArraySort("records", <<ra, rb, rc>>) IN
       sorts' = [once |-> once,
                 twice |-> IF once.threw THEN once
                           ELSE ArraySort("records", once.val)]
  /\ cpc' = "done"
  /\ UNCHANGED <<ra, rb, rc, cmp, pipevars, descvars>>

NextCmp == Compare \/ SortTwice

SpecCmp == InitCmp /\ [][NextCmp]_vars

---------------------------------------------------------------------------
(* Properties *)

Range(seq) == {seq[i] : i \in 1..Len(seq)}

PosIn(seq, x) == CHOOSE i \in 1..Len(seq) : seq[i] = x

\* C3: grouping is a stable partition of the collected records.  Right after
\* groupBy, before any group is sorted: every collected record is in exactly
\* one group, exactly once; the groups hold nothing else and none is empty;
\* inside a group the records are in input order; no records, no groups.
C3_StablePartition ==
  (proc = "rendering" /\ blocks = <<>>) =>
    /\ \A i \in 1..Len(records) :
         Cardinality({kj \in UNION {{<<k, j>> : j \in 1..Len(groups[k])} :
                                      k \in DOMAIN groups} :
                        groups[kj[1]][kj[2]] = records[i]}) = 1
    /\ \A k \in DOMAIN groups :
         /\ groups[k] # <<>>
         /\ Range(groups[k]) \subseteq Range(records)
         /\ \A i, j \in 1..Len(groups[k]) :
              i < j => PosIn(records, groups[k][i]) < PosIn(records, groups[k][j])
    /\ (records = <<>> => DOMAIN groups = {})

\* Two groups, one of them with records that are not neighbours in the input.
C3_Witness ==
  /\ proc = "rendering" /\ blocks = <<>>
  /\ Cardinality(DOMAIN groups) >= 2
  /\ \E k \in DOMAIN groups :
       /\ Len(groups[k]) >= 2
       /\ PosIn(records, groups[k][2]) > PosIn(records, groups[k][1]) + 1

\* C6: render is called at most once, only after the stream has finished,
\* with every parsed record in input order; nothing is rendered or written
\* before that call; after a failed ingestion render is never called and
\* nothing is written.
C6_CollectThenRender ==
  /\ Len(calls) <= 1
  /\ calls # <<>> =>
       parser = "ended" /\ inflight = <<>> /\ calls[1] = emitted
  /\ (blocks # <<>> \/ stdout # <<>>) => Len(calls) = 1
  /\ (proc \in {"rendering", "done"} \/ (proc = "crashed" /\ parser = "ended"))
       => Len(calls) = 1
  /\ parser = "error" => calls = <<>> /\ blocks = <<>> /\ stdout = <<>>
  /\ stdout # <<>> => proc = "done"

\* A report was written for an input of at least two different records.
C6_Witness ==
  /\ proc = "done" /\ stdout # <<>>
  /\ Len(calls) = 1 /\ Len(calls[1]) >= 2
  /\ calls[1][1].cells # calls[1][2].cells

\* The positions of d that survive the replacement of CR LF by LF: all but
\* a CR that an LF follows.
Kept(d) ==
  {i \in 1..Len(d) : ~(At(d, i) = "\r" /\ i < Len(d) /\ At(d, i + 1) = "\n")}

RECURSIVE Pick(_, _, _)
Pick(d, keep, i) ==
  IF i > Len(d) THEN ""
  ELSE (IF i \in keep THEN At(d, i) ELSE "") \o Pick(d, keep, i + 1)

\* The pipeline of the claim, step by step, by positions.
ShortOf(d) ==
  LET n == Pick(d, Kept(d), 1)
      lfs == {i \in 1..Len(n) : At(n, i) = "\n"}
      cut == IF lfs = {} THEN Len(n) + 1
             ELSE CHOOSE i \in lfs : \A j \in lfs : i <= j
      l == SubSeq(n, 1, cut - 1)
      a == IF Len(l) >= 1 /\ At(l, 1) = "_" THEN SubSeq(l, 2, Len(l)) ELSE l
      b == IF Len(a) >= 1 /\ At(a, Len(a)) = "_"
           THEN SubSeq(a, 1, Len(a) - 1) ELSE a
      c == IF Len(b) >= 9 /\ toLowerCase(SubSeq(b, 1, 9)) = "summary: "
           THEN SubSeq(b, 10, Len(b)) ELSE b
      ms == {m \in 1..Len(c) :
               /\ \A i \in 1..m : IsLetter(At(c, i))
               /\ Len(c) >= m + 12
               /\ toLowerCase(SubSeq(c, m + 1, m + 12)) = "'s summary: "}
  IN IF ms = {} THEN c
     ELSE SubSeq(c, (CHOOSE m \in ms : TRUE) + 13, Len(c))

\* C9: getShortDescription returns the result of the fixed pipeline: CR LF
\* to LF, the text before the first LF, one leading underscore off, one
\* trailing underscore off, a leading "Summary: " off, a leading
\* "<letters>'s summary: " off, each once and in this order.
C9_ShortDescriptionPipeline ==
  dpc = "done" => descOut = ShortOf(descArg)

\* A description on which the order of the steps shows.
C9_Witness ==
  dpc = "done" /\ descArg = "_Summary: x" /\ descOut = "x"

\* A clean description: one line, no underscore at either end, no prefix.
Clean(d) ==
  /\ \A i \in 1..Len(d) : At(d, i) # "\n"
  /\ d = "" \/ (At(d, 1) # "_" /\ At(d, Len(d)) # "_")
  /\ ~(Len(d) >= 9 /\ toLowerCase(SubSeq(d, 1, 9)) = "summary: ")
  /\ ~\E m \in 1..Len(d) :
        /\ \A i \in 1..m : IsLetter(At(d, i))
        /\ Len(d) >= m + 12
        /\ toLowerCase(SubSeq(d, m + 1, m + 12)) = "'s summary: "

\* C10: getShortDescription returns a clean description unchanged.
C10_CleanUnchanged ==
  (dpc = "done" /\ Clean(descArg)) => descOut = descArg

\* A clean description with an underscore and a prefix inside it.
C10_Witness ==
  dpc = "done" /\ descArg = "x_Summary: " /\ Clean(descArg)

\* The ranks and the order as the specification gives them.
RankOfPriority(p) ==
  CASE p = "Highest" -> 2
    [] p = "High" -> 1
    [] p = "Medium" -> 0
    [] p = "Low" -> -1
    [] p = "Lowest" -> -2
    [] OTHER -> 0

TierOfStatus(st) ==
  CASE st \in {"Staging Ready", "Closed"} -> 2
    [] st \in {"Code Review", "In Progress", "Rejected"} -> 1
    [] OTHER -> 0

TextCompare(s, t) ==
  LET p == CompareBy(PrimaryWeights, s, t) IN
  IF p # 0 THEN p ELSE CompareBy(TertiaryWeights, s, t)

\* -1, 0 or 1: a before b, a tie, a after b.
OrderOf(a, b) ==
  LET pa == RankOfPriority(Get(a, "Priority").text)
      pb == RankOfPriority(Get(b, "Priority").text)
      ta == TierOfStatus(Get(a, "Status").text)
      tb == TierOfStatus(Get(b, "Status").text)
      st == TextCompare(Get(a, "Status").text, Get(b, "Status").text)
      su == TextCompare(Get(a, "Summary").text, Get(b, "Summary").text)
  IN
  IF pa # pb THEN (IF pa > pb THEN -1 ELSE 1)
  ELSE IF ta # tb THEN (IF ta > tb THEN -1 ELSE 1)
  ELSE IF st # 0 THEN st
  ELSE su

\* The records of the rows of a block, in the order of the rows.
RowRecords(b) == [i \in 1..Len(b.rows) |-> b.rows[i].record]

\* The collected records whose group key is k.
Members(k) == {r \in Range(records) : GroupKey(r) = k}

\* C1: the rows renderGroup emits for a group are the records of the group,
\* each once, in the order of the ranks: priority rank descending
\* (unrecognized 0), status tier descending, status ascending, summary
\* ascending; not in input order.
C1_RowsInComparatorOrder ==
  \A i \in 1..Len(blocks) :
    LET rs == RowRecords(blocks[i]) IN
    /\ Range(rs) = Members(blocks[i].group)
    /\ Len(rs) = Cardinality(Members(blocks[i].group))
    /\ \A j \in 1..(Len(rs) - 1) : OrderOf(rs[j].cells, rs[j + 1].cells) <= 0

Sign(x) == IF x > 0 THEN 1 ELSE IF x < 0 THEN -1 ELSE 0

\* C2: recordComparator is a consistent ordering of all records: every
\* comparison yields a number, the sign of cmp(a, b) is the opposite of the
\* sign of cmp(b, a), cmp(a, b) <= 0 and cmp(b, c) <= 0 imply cmp(a, c) <= 0,
\* and a sorted group sorted again keeps its order.
C2_ConsistentOrdering ==
  /\ cpc \in {"compared", "done"} =>
       /\ \A f \in DOMAIN cmp : cmp[f].k = "num"
       /\ Sign(cmp.ab.n) = -Sign(cmp.ba.n)
       /\ Sign(cmp.bc.n) = -Sign(cmp.cb.n)
       /\ Sign(cmp.ac.n) = -Sign(cmp.ca.n)
       /\ (cmp.ab.n <= 0 /\ cmp.bc.n <= 0) => cmp.ac.n <= 0
  /\ cpc = "done" =>
       /\ ~sorts.once.threw
       /\ ~sorts.twice.threw
       /\ sorts.twice.val = sorts.once.val

\* C4: the group key of a record is the raw value of the column whose header
\* is "Custom field" TAB "(Epic Link)": two records are in one group exactly
\* when their values in that column are equal.
C4_GroupKeyIsEpicLink ==
  (header = EpicLinkTab /\ calls # <<>>) =>
    \A r1, r2 \in Range(records) :
      (\E k \in DOMAIN groups : {r1, r2} \subseteq Range(groups[k]))
        <=> Get(r1.cells, EpicLinkTab) = Get(r2.cells, EpicLinkTab)

\* The display name the specification gives a group key.
DisplayName(EPICS, k) ==
  IF k \in DOMAIN EPICS THEN EPICS[k]
  ELSE IF k # "" THEN k
  ELSE "No epic"

\* C5: the heading of every group is the configured name of its key when
\* the key is configured, else the key when it is not empty, else "No epic".
C5_DisplayName ==
  \A i \in 1..Len(blocks) :
    blocks[i].heading = "## " \o DisplayName(config.epics, blocks[i].group)

\* C7: unknown, empty or type-coerced field values are no errors: only a
\* failed ingestion ends the run without a report, and every row rendered
\* uses the fallbacks: lightgrey for an unrecognized status, an empty short
\* description for an empty description, "No epic" for an empty key that is
\* not configured.
C7_FallbacksNoErrors ==
  /\ proc = "crashed" => parser = "error"
  /\ \A i \in 1..Len(blocks) :
       /\ (blocks[i].group = "" /\ "" \notin DOMAIN config.epics)
            => blocks[i].heading = "## No epic"
       /\ \A j \in 1..Len(blocks[i].rows) :
            LET row == blocks[i].rows[j]
                cells == row.record.cells
            IN
            /\ Get(cells, "Status").text \notin DOMAIN STATUS_INDICES
                 => row.color = "lightgrey"
            /\ Get(cells, "Description").text = "" => row.shortdesc = ""

\* C8: once the run is over, the headings are those of the distinct raw
\* epic-link values of the input, one each, in ascending order of the key,
\* each followed by the rows of its group; no records, no heading.
C8_GroupsInKeyOrder ==
  (parser = "ended" /\ inflight = <<>> /\ proc \in {"done", "crashed"}) =>
    /\ {blocks[i].group : i \in 1..Len(blocks)}
         = {Get(r.cells, header).text : r \in Range(records)}
    /\ \A i, j \in 1..Len(blocks) :
         i < j => CodeUnitCompare(blocks[i].group, blocks[j].group) < 0
    /\ \A i \in 1..Len(blocks) :
         Range(RowRecords(blocks[i])) = Members(blocks[i].group)
    /\ (records = <<>> => blocks = <<>>)

===========================================================================
